---- MODULE Spec2Model ----
(***************************************************************************)
(* Model of app.py: a Streamlit script that extracts records from uploaded *)
(* documents through a remote model, answers questions over the records    *)
(* table, and generates a report, with an on-disk content-addressed cache  *)
(* (documents / queries / reports) in front of every remote call.          *)
(*                                                                         *)
(* Text (JSON text, CSV text, questions, model replies) is a sequence of   *)
(* tokens; a token is a record [t, s].  Strings that the program compares  *)
(* character by character are sequences of "chars" tokens, so that an      *)
(* empty string is the empty sequence and concatenation is \o.             *)
(***************************************************************************)
EXTENDS FiniteSets, Integers, Sequences, TLC

\* ---------------------------------------------------------------- bounds
MaxFiles == 3     \* files per upload
MaxCalls == 4     \* calls of the three cached functions per behaviour
BufferSize == 6   \* tokens the file object writes out at a time

\* ---------------------------------------------------------- JSON values
Num(s) == [t |-> "num", s |-> s]
Str(s) == [t |-> "str", s |-> s]
Key(s) == [t |-> "key", s |-> s]
Chars(s) == [t |-> "chars", s |-> s]
LBrace == [t |-> "punct", s |-> "{"]
RBrace == [t |-> "punct", s |-> "}"]
LBrack == [t |-> "punct", s |-> "["]
RBrack == [t |-> "punct", s |-> "]"]
Comma == Chars(",")
NL == Chars("\n")

IsValue(tok) == tok.t \in {"num", "str", "list"}
EmptyList == [t |-> "list", s |-> "[]"]

\* A parsed JSON document: a dict (insertion-ordered items) or a list.
Item(k, v) == [k |-> k, v |-> v]
Obj(items) == [kind |-> "object", items |-> items]
ListDoc == [kind |-> "list", items |-> <<>>]
NoDoc == [kind |-> "none", items |-> <<>>]

Keys(items) == {items[i].k : i \in 1..Len(items)}

\* dict[k] (the caller checks k \in Keys(items) first: KeyError otherwise)
GetItem(items, k) == items[CHOOSE i \in 1..Len(items) : items[i].k = k].v

\* dict[k] = v : replaces in place when the key exists, appends otherwise
SetItem(items, k, v) ==
  IF k \in Keys(items)
  THEN [i \in 1..Len(items) |-> IF items[i].k = k THEN Item(k, v) ELSE items[i]]
  ELSE Append(items, Item(k, v))

\* json.dump(doc, fp, ensure_ascii=False): the text written
RECURSIVE DumpItems(_)
DumpItems(items) ==
  IF items = <<>> THEN <<>>
  ELSE <<Key(Head(items).k), Head(items).v>> \o DumpItems(Tail(items))

dumps(doc) ==
  IF doc.kind = "object" THEN <<LBrace>> \o DumpItems(doc.items) \o <<RBrace>>
  ELSE <<LBrack, RBrack>>

\* json.loads / json.load: [ok, doc]; ok = FALSE is json.JSONDecodeError
WellFormedObject(text) ==
  /\ Len(text) >= 2
  /\ text[1] = LBrace
  /\ text[Len(text)] = RBrace
  /\ (Len(text) - 2) % 2 = 0
  /\ \A i \in 1..((Len(text) - 2) \div 2) :
       /\ text[2 * i].t = "key"
       /\ IsValue(text[2 * i + 1])

loads(text) ==
  IF WellFormedObject(text)
  THEN [ok |-> TRUE,
        doc |-> Obj([i \in 1..((Len(text) - 2) \div 2) |->
                       Item(text[2 * i].s, text[2 * i + 1])])]
  ELSE IF text = <<LBrack, RBrack>>
  THEN [ok |-> TRUE, doc |-> ListDoc]
  ELSE [ok |-> FALSE, doc |-> NoDoc]

\* ------------------------------------------------------- pandas / table
NaN == [t |-> "nan", s |-> ""]

RECURSIVE AddColumns(_, _)
AddColumns(cols, items) ==
  IF items = <<>> THEN cols
  ELSE AddColumns(IF \E j \in 1..Len(cols) : cols[j] = Head(items).k
                  THEN cols ELSE Append(cols, Head(items).k),
                  Tail(items))

RECURSIVE Columns(_)
Columns(recs) ==
  IF recs = <<>> THEN <<>>
  ELSE AddColumns(Columns(SubSeq(recs, 1, Len(recs) - 1)), recs[Len(recs)].items)

\* pd.DataFrame(records): columns in order of first appearance, NaN where a
\* record lacks the column
DataFrame(recs) ==
  LET cols == Columns(recs) IN
  [columns |-> cols,
   rows |-> [i \in 1..Len(recs) |->
               [j \in 1..Len(cols) |->
                  IF cols[j] \in Keys(recs[i].items)
                  THEN GetItem(recs[i].items, cols[j]) ELSE NaN]]]

\* the characters a cell contributes to the CSV text (na_rep = '', values
\* through str(); no cell of the model needs quoting)
CellText(v) == IF v.s = "" THEN <<>> ELSE <<Chars(v.s)>>

RECURSIVE CsvCells(_)
CsvCells(cells) ==
  IF cells = <<>> THEN <<>>
  ELSE <<Comma>> \o CellText(Head(cells)) \o CsvCells(Tail(cells))

RECURSIVE CsvHeader(_)
CsvHeader(cols) ==
  IF cols = <<>> THEN <<>>
  ELSE <<Comma, Chars(Head(cols))>> \o CsvHeader(Tail(cols))

RECURSIVE CsvRows(_, _)
CsvRows(rows, i) ==
  IF i > Len(rows) THEN <<>>
  ELSE <<Chars(ToString(i - 1))>> \o CsvCells(rows[i]) \o <<NL>>
       \o CsvRows(rows, i + 1)

\* df.to_csv(): header line with an empty index label, then one line per row
\* starting with the RangeIndex label
to_csv(df) == CsvHeader(df.columns) \o <<NL>> \o CsvRows(df.rows, 1)

\* ------------------------------------------------------------ cache keys
\* hashlib.sha256(...).hexdigest(), treated as injective on its input
Sha256(x) == [sha256 |-> x]

hash_bytes(raw) == Sha256(<<raw>>)

\* the string semantic_query hashes, and its cache key
QueryKeyText(df, q) == to_csv(df) \o q
QueryKey(df, q) == Sha256(QueryKeyText(df, q))

\* the cache key of generate_report
ReportKey(df) == Sha256(to_csv(df))

\* ------------------------------------------------------- inputs (bounded)
Raw(s) == [t |-> "bytes", s |-> s]
Bytes == {Raw("%PDF-1"), Raw("%PDF-2")}
Names == {"a.png", "b.png"}

\* an uploaded file: content and name (file.read(), file.name)
Files == [bytes : Bytes, name : Names]

RECURSIVE SeqsUpTo(_, _)
SeqsUpTo(S, n) ==
  IF n = 0 THEN {<<>>}
  ELSE LET shorter == SeqsUpTo(S, n - 1) IN
       shorter \cup {Append(sq, x) : sq \in shorter, x \in S}

Uploads == SeqsUpTo(Files, MaxFiles)

Questions == {<<>>, <<Chars("total?")>>}

\* what the remote endpoint does with one request: HTTP status and, for a
\* 200, the content of the first choice
Reply(status, text) == [status |-> status, text |-> text]
NoReply == Reply("none", <<>>)
Prose == <<Chars("Here is the JSON you asked for")>>
ErrorBody == dumps(Obj(<<Item("error", Str("overloaded"))>>))
Failures == {Reply("500", ErrorBody), Reply("200", Prose)}

DocReplies ==
  Failures \cup
  {Reply("200", dumps(ListDoc)),
   Reply("200", dumps(Obj(<<Item("total", Num("100"))>>))),
   Reply("200", dumps(Obj(<<Item("total", Str("100")),
                            Item("filename", Str("evil.pdf")),
                            Item("vat", Str("14%"))>>)))}

QueryReplies ==
  Failures \cup
  {Reply("200", dumps(Obj(<<Item("answer", Str("100")), Item("rows", EmptyList)>>))),
   Reply("200", dumps(Obj(<<Item("rows", EmptyList)>>)))}

ReportReplies ==
  Failures \cup
  {Reply("200", dumps(Obj(<<Item("title", Str("A")), Item("net", Num("100"))>>))),
   Reply("200", dumps(Obj(<<Item("title", Str("B"))>>)))}

\* The file object buffers the text and writes it out a buffer at a time.  A
\* process killed while writing a cache file leaves the first `crash` tokens
\* of the text: none (killed after open) or the first buffer; a point at or
\* past the end of the text is a complete write.
CrashPoints == {0, BufferSize, 2 * BufferSize}

\* ------------------------------------------------------ library calls
\* a check that never finds the file
ExistsNever(dir, path) == FALSE

\* a check that takes an unreadable file for a missing one
ExistsAndValid(dir, path) == path \in DOMAIN dir /\ loads(dir[path]).ok

\* os.path.exists(path)
Exists(dir, path) == path \in DOMAIN dir

\* json.dump(data, open(path, "w", encoding="utf-8"), ensure_ascii=False):
\* open creates or truncates the file, dump writes the text
Crashed(text, crash) == crash < Len(text)

\* a miss that is never persisted
WriteJsonSkipped(dir, path, doc, crash) == dir

WriteJson(dir, path, doc, crash) ==
  LET text == dumps(doc)
      written == IF Crashed(text, crash) THEN SubSeq(text, 1, crash) ELSE text
  IN [p \in DOMAIN dir \cup {path} |-> IF p = path THEN written ELSE dir[p]]

\* the gateway without raise_for_status: an error body is returned as content
call_openrouter_unchecked(reply) == [raised |-> FALSE, content |-> reply.text]

\* requests.post(...); res.raise_for_status(); res.json()[...]["content"]
call_openrouter(reply) ==
  IF reply.status = "200"
  THEN [raised |-> FALSE, content |-> reply.text]
  ELSE [raised |-> TRUE, content |-> <<>>]

\* the outcome of one call of a cached function
Result(outcome, value, fs, hit, reply) ==
  [outcome |-> outcome, value |-> value, cache |-> fs, hit |-> hit,
   reply |-> reply]

\* ------------------------------------------------------ extract_document
DocPath(file) == hash_bytes(file.bytes)

extract_document(fs, file, reply, crash) ==
  LET path == DocPath(file) IN
  IF Exists(fs.documents, path)
  THEN LET r == loads(fs.documents[path]) IN
       IF r.ok THEN Result("ok", r.doc, fs, TRUE, NoReply)
       ELSE Result("JSONDecodeError", NoDoc, fs, TRUE, NoReply)
  ELSE LET res == call_openrouter(reply) IN
       IF res.raised THEN Result("HTTPError", NoDoc, fs, FALSE, reply)
       ELSE LET r == loads(res.content) IN
            IF ~r.ok THEN Result("JSONDecodeError", NoDoc, fs, FALSE, reply)
            ELSE IF r.doc.kind /= "object"
            THEN Result("TypeError", NoDoc, fs, FALSE, reply)
            ELSE LET data == Obj(SetItem(r.doc.items, "filename", Str(file.name)))
                     fs2 == [fs EXCEPT !.documents = WriteJson(@, path, data, crash)]
                 IN IF Crashed(dumps(data), crash)
                    THEN Result("crash", NoDoc, fs2, FALSE, reply)
                    ELSE Result("ok", data, fs2, FALSE, reply)

\* ------------------------------------------------------ semantic_query
semantic_query(fs, df, q, reply, crash) ==
  LET path == QueryKey(df, q) IN
  IF Exists(fs.queries, path)
  THEN LET r == loads(fs.queries[path]) IN
       IF r.ok THEN Result("ok", r.doc, fs, TRUE, NoReply)
       ELSE Result("JSONDecodeError", NoDoc, fs, TRUE, NoReply)
  ELSE LET res == call_openrouter(reply) IN
       IF res.raised THEN Result("HTTPError", NoDoc, fs, FALSE, reply)
       ELSE LET r == loads(res.content) IN
            IF ~r.ok THEN Result("JSONDecodeError", NoDoc, fs, FALSE, reply)
            ELSE LET fs2 == [fs EXCEPT !.queries = WriteJson(@, path, r.doc, crash)]
                 IN IF Crashed(dumps(r.doc), crash)
                    THEN Result("crash", NoDoc, fs2, FALSE, reply)
                    ELSE Result("ok", r.doc, fs2, FALSE, reply)

\* ------------------------------------------------------ generate_report
generate_report(fs, df, reply, crash) ==
  LET path == ReportKey(df) IN
  IF Exists(fs.reports, path)
  THEN LET r == loads(fs.reports[path]) IN
       IF r.ok THEN Result("ok", r.doc, fs, TRUE, NoReply)
       ELSE Result("JSONDecodeError", NoDoc, fs, TRUE, NoReply)
  ELSE LET res == call_openrouter(reply) IN
       IF res.raised THEN Result("HTTPError", NoDoc, fs, FALSE, reply)
       ELSE LET r == loads(res.content) IN
            IF ~r.ok THEN Result("JSONDecodeError", NoDoc, fs, FALSE, reply)
            ELSE LET fs2 == [fs EXCEPT !.reports = WriteJson(@, path, r.doc, crash)]
                 IN IF Crashed(dumps(r.doc), crash)
                    THEN Result("crash", NoDoc, fs2, FALSE, reply)
                    ELSE Result("ok", r.doc, fs2, FALSE, reply)

\* ------------------------------------------------------------ export_pdf
\* one text line "<key>: <value>" per item, in the dict's order
RenderLines(items) == [i \in 1..Len(items) |-> <<items[i].k, items[i].v.s>>]

NoPdf == [exists |-> FALSE, lines |-> <<>>]
PdfOf(report) == [exists |-> TRUE, lines |-> RenderLines(report.items)]

\* the lookups of the query handler: answer['answer'], answer["rows"]
ShowAnswer(answer) ==
  IF answer.kind /= "object" THEN "TypeError"
  ELSE IF "answer" \notin Keys(answer.items) THEN "KeyError"
  ELSE IF "rows" \notin Keys(answer.items) THEN "KeyError"
  ELSE "ok"

\* ================================================================ state
VARIABLES
  cache,      \* the cache directory: namespace -> (path -> text of the file)
  pdf,        \* the file /tmp/report.pdf
  pc,         \* position of the script run: idle, extract, query, report, end
  files,      \* the uploaded files of the run
  idx,        \* 1-based position of the batch loop in files
  records,    \* records extracted so far in the run
  download,   \* the bytes handed to the download button
  ret,        \* what the step just taken did (operation, outcome, value)
  calls,      \* number of calls of the cached functions so far
  done,       \* history: first successful result of extract_document per file
  attempted,  \* history: batch positions extracted in the run, in order
  \* concurrent sessions (SpecConc), one entry per session
  cpc,        \* position of the session's script run
  cfile,      \* the file the session uploaded
  cdata,      \* the record the session extracted
  crep,       \* the report generate_report returned to the session
  cdl,        \* the bytes the session read for its download button
  writeLog,   \* history: the sessions that wrote a documents file, in order
  \* two requests to semantic_query (SpecKey)
  reqA, reqB, \* [table, question]
  keyA, keyB  \* their cache keys

seqVars == <<pc, files, idx, records, download, ret, calls, done, attempted>>
concVars == <<cpc, cfile, cdata, crep, cdl, writeLog>>
keyVars == <<reqA, reqB, keyA, keyB>>
vars == <<cache, pdf, seqVars, concVars, keyVars>>

NoKey == Sha256(<<>>)
Ret(op, key, r) ==
  [op |-> op, key |-> key, outcome |-> r.outcome, value |-> r.value,
   hit |-> r.hit, reply |-> r.reply]
NoRet == Ret("none", NoKey, Result("none", NoDoc, <<>>, FALSE, NoReply))

df == DataFrame(records)

Sessions == {"s1", "s2"}
NoFile == [bytes |-> Raw(""), name |-> ""]
NoRequest == [table |-> <<>>, question |-> <<>>]

\* the cache directories exist and are empty; no report was exported yet
DiskInit ==
  /\ cache = [documents |-> <<>>, queries |-> <<>>, reports |-> <<>>]
  /\ pdf = NoPdf

ConcInit ==
  /\ cpc = [p \in Sessions |-> "idle"]
  /\ cfile = [p \in Sessions |-> NoFile]
  /\ cdata = [p \in Sessions |-> NoDoc]
  /\ crep = [p \in Sessions |-> NoDoc]
  /\ cdl = [p \in Sessions |-> NoPdf]
  /\ writeLog = <<>>

KeyInit ==
  /\ reqA = NoRequest
  /\ reqB = NoRequest
  /\ keyA = NoKey
  /\ keyB = NoKey

\* no script run is in progress
SeqIdle ==
  /\ pc = "idle"
  /\ files = <<>>
  /\ idx = 1
  /\ records = <<>>
  /\ download = NoPdf
  /\ ret = NoRet
  /\ calls = 0
  /\ done = [f \in Files |-> NoDoc]
  /\ attempted = <<>>

Init == DiskInit /\ ConcInit /\ KeyInit /\ SeqIdle

\* A user interaction reruns the script from the top with the widgets'
\* current values.
StartRun ==
  /\ pc = "idle"
  /\ \E fs \in Uploads :
       /\ Len(fs) <= MaxCalls - calls
       /\ files' = fs
  /\ idx' = 1
  /\ records' = <<>>
  /\ attempted' = <<>>
  /\ download' = NoPdf
  /\ ret' = NoRet
  /\ pc' = "extract"
  /\ UNCHANGED <<cache, pdf, calls, done>>
  /\ UNCHANGED <<concVars, keyVars>>

\* a loop that isolates each file's failure
BatchContinuesAlways(outcome) == TRUE

\* an exception raised inside the for loop leaves the loop (and the run)
BatchContinues(outcome) == outcome = "ok"

\* one iteration of `for f in files: records.append(extract_document(f))`
ExtractNext ==
  /\ pc = "extract"
  /\ idx <= Len(files)
  /\ \E reply \in DocReplies, crash \in CrashPoints :
       LET f == files[idx]
           r == extract_document(cache, f, reply, crash)
       IN /\ cache' = r.cache
          /\ ret' = Ret("extract", DocPath(f), r)
          /\ attempted' = Append(attempted, idx)
          /\ calls' = calls + 1
          /\ records' = IF r.outcome = "ok" THEN Append(records, r.value)
                        ELSE records
          /\ done' = IF r.outcome = "ok" /\ done[f] = NoDoc
                     THEN [done EXCEPT ![f] = r.value] ELSE done
          /\ IF BatchContinues(r.outcome)
             THEN /\ idx' = idx + 1
                  /\ pc' = "extract"
             ELSE /\ idx' = idx
                  /\ pc' = "end"
  /\ UNCHANGED <<pdf, files, download>>
  /\ UNCHANGED <<concVars, keyVars>>

\* `if records:` after the loop: the table is shown and the query and report
\* sections run; with no records the script ends
ShowTable ==
  /\ pc = "extract"
  /\ idx > Len(files)
  /\ pc' = IF records /= <<>> THEN "query" ELSE "end"
  /\ ret' = NoRet
  /\ UNCHANGED <<cache, pdf, files, idx, records, download, calls, done,
                 attempted>>
  /\ UNCHANGED <<concVars, keyVars>>

\* question = st.text_input(...); `if question:` semantic_query, then the
\* lookups answer['answer'] and answer["rows"]
Query ==
  /\ pc = "query"
  /\ \E question \in Questions :
     IF question = <<>>
     THEN /\ pc' = "report"
          /\ ret' = NoRet
          /\ UNCHANGED <<cache, calls>>
     ELSE \E reply \in QueryReplies, crash \in CrashPoints :
            LET r == semantic_query(cache, df, question, reply, crash)
                shown == IF r.outcome = "ok" THEN ShowAnswer(r.value)
                         ELSE r.outcome
            IN /\ calls < MaxCalls
               /\ calls' = calls + 1
               /\ cache' = r.cache
               /\ ret' = Ret("query", QueryKey(df, question),
                             [r EXCEPT !.outcome = shown])
               /\ pc' = IF shown = "ok" THEN "report" ELSE "end"
  /\ UNCHANGED <<pdf, files, idx, records, download, done, attempted>>
  /\ UNCHANGED <<concVars, keyVars>>

\* `if st.button(...)`: generate_report, export_pdf, then the file is read
\* for the download button
Report ==
  /\ pc = "report"
  /\ \E button \in BOOLEAN :
     IF ~button
     THEN /\ ret' = NoRet
          /\ UNCHANGED <<cache, pdf, download, calls>>
     ELSE \E reply \in ReportReplies, crash \in CrashPoints :
            LET r == generate_report(cache, df, reply, crash)
                exported == IF r.outcome /= "ok" THEN r.outcome
                            ELSE IF r.value.kind /= "object"
                            THEN "AttributeError" ELSE "ok"
            IN /\ calls < MaxCalls
               /\ calls' = calls + 1
               /\ cache' = r.cache
               /\ ret' = Ret("report", ReportKey(df),
                             [r EXCEPT !.outcome = exported])
               /\ pdf' = IF exported = "ok" THEN PdfOf(r.value) ELSE pdf
               /\ download' = IF exported = "ok" THEN PdfOf(r.value)
                              ELSE download
  /\ pc' = "end"
  /\ UNCHANGED <<files, idx, records, done, attempted>>
  /\ UNCHANGED <<concVars, keyVars>>

\* the script run is over (normally, by an uncaught exception, or with the
\* process): its locals and the page's widgets are gone
EndRun ==
  /\ pc = "end"
  /\ pc' = "idle"
  /\ files' = <<>>
  /\ idx' = 1
  /\ records' = <<>>
  /\ download' = NoPdf
  /\ ret' = NoRet
  /\ attempted' = <<>>
  /\ UNCHANGED <<cache, pdf, calls, done>>
  /\ UNCHANGED <<concVars, keyVars>>

Next == StartRun \/ ExtractNext \/ ShowTable \/ Query \/ Report \/ EndRun

Spec == Init /\ [][Next]_vars

\* ==================================================== concurrent sessions
\* Two sessions run the script at the same time, each with one uploaded file,
\* an empty question and the report button pressed.  extract_document is
\* taken statement by statement; the cache directory and /tmp/report.pdf are
\* shared.

\* a write at offset 0 of a file that is `old`: the bytes past the end of the
\* written text stay
Overlay(old, text) == text \o SubSeq(old, Len(text) + 1, Len(old))

CPath(p) == DocPath(cfile[p])

\* files = st.file_uploader(...); raw = file.read(); the path is computed
CUpload(p) ==
  /\ cpc[p] = "idle"
  /\ \E f \in Files : cfile' = [cfile EXCEPT ![p] = f]
  /\ cpc' = [cpc EXCEPT ![p] = "exists"]
  /\ UNCHANGED <<cache, pdf, cdata, crep, cdl, writeLog, seqVars, keyVars>>

\* if os.path.exists(cache_path):
CExists(p) ==
  /\ cpc[p] = "exists"
  /\ cpc' = [cpc EXCEPT ![p] = IF Exists(cache.documents, CPath(p))
                                THEN "load" ELSE "call"]
  /\ UNCHANGED <<cache, pdf, cfile, cdata, crep, cdl, writeLog, seqVars,
                 keyVars>>

\* time.sleep(2); return json.load(open(cache_path, ...))
CLoad(p) ==
  /\ cpc[p] = "load"
  /\ LET r == loads(cache.documents[CPath(p)]) IN
       /\ cdata' = [cdata EXCEPT ![p] = r.doc]
       /\ cpc' = [cpc EXCEPT ![p] = IF r.ok THEN "generate" ELSE "failed"]
  /\ UNCHANGED <<cache, pdf, cfile, crep, cdl, writeLog, seqVars, keyVars>>

\* result = call_openrouter(messages); data = json.loads(result);
\* data["filename"] = file.name
CCall(p) ==
  /\ cpc[p] = "call"
  /\ \E reply \in DocReplies :
       LET res == call_openrouter(reply)
           r == loads(res.content)
       IN IF res.raised \/ ~r.ok \/ r.doc.kind /= "object"
          THEN /\ cpc' = [cpc EXCEPT ![p] = "failed"]
               /\ cdata' = cdata
          ELSE /\ cpc' = [cpc EXCEPT ![p] = "open"]
               /\ cdata' = [cdata EXCEPT ![p] =
                    Obj(SetItem(r.doc.items, "filename", Str(cfile[p].name)))]
  /\ UNCHANGED <<cache, pdf, cfile, crep, cdl, writeLog, seqVars, keyVars>>

\* open(cache_path, "w", encoding="utf-8"): the file is created or truncated
COpen(p) ==
  /\ cpc[p] = "open"
  /\ cache' = [cache EXCEPT !.documents =
                 [k \in DOMAIN @ \cup {CPath(p)} |->
                    IF k = CPath(p) THEN <<>> ELSE @[k]]]
  /\ cpc' = [cpc EXCEPT ![p] = "write"]
  /\ UNCHANGED <<pdf, cfile, cdata, crep, cdl, writeLog, seqVars, keyVars>>

\* json.dump(data, fp): the buffered text reaches the file, from the file
\* object's own offset 0, when the file object is closed
CWrite(p) ==
  /\ cpc[p] = "write"
  /\ cache' = [cache EXCEPT !.documents[CPath(p)] = Overlay(@, dumps(cdata[p]))]
  /\ writeLog' = Append(writeLog, p)
  /\ cpc' = [cpc EXCEPT ![p] = "generate"]
  /\ UNCHANGED <<pdf, cfile, cdata, crep, cdl, seqVars, keyVars>>

\* report = generate_report(df); st.json(report)
CGenerate(p) ==
  /\ cpc[p] = "generate"
  /\ \E reply \in ReportReplies :
       LET r == generate_report(cache, DataFrame(<<cdata[p]>>), reply,
                                2 * BufferSize)
       IN /\ cache' = r.cache
          /\ crep' = [crep EXCEPT ![p] = r.value]
          /\ cpc' = [cpc EXCEPT ![p] = IF r.outcome = "ok" THEN "export"
                                        ELSE "failed"]
  /\ UNCHANGED <<pdf, cfile, cdata, cdl, writeLog, seqVars, keyVars>>

\* pdf_path = export_pdf(report): the canvas is saved to /tmp/report.pdf
CExport(p) ==
  /\ cpc[p] = "export"
  /\ pdf' = PdfOf(crep[p])
  /\ cpc' = [cpc EXCEPT ![p] = "read"]
  /\ UNCHANGED <<cache, cfile, cdata, crep, cdl, writeLog, seqVars, keyVars>>

\* with open(pdf_path, "rb") as f: st.download_button(..., f, ...)
CRead(p) ==
  /\ cpc[p] = "read"
  /\ cdl' = [cdl EXCEPT ![p] = pdf]
  /\ cpc' = [cpc EXCEPT ![p] = "done"]
  /\ UNCHANGED <<cache, pdf, cfile, cdata, crep, writeLog, seqVars, keyVars>>

InitConc == DiskInit /\ ConcInit /\ KeyInit /\ SeqIdle

NextConc ==
  \E p \in Sessions :
    \/ CUpload(p)
    \/ CExists(p)
    \/ CLoad(p)
    \/ CCall(p)
    \/ COpen(p)
    \/ CWrite(p)
    \/ CGenerate(p)
    \/ CExport(p)
    \/ CRead(p)

SpecConc == InitConc /\ [][NextConc]_vars

\* ======================================================= query cache key
\* semantic_query's cache key as a function of its two arguments: pairs of
\* requests drawn from small tables and questions
KeyRecords ==
  {Obj(<<Item("total", Num("100")), Item("filename", Str("a.png"))>>),
   Obj(<<Item("total", Str("100")), Item("filename", Str("a.png"))>>),
   Obj(<<Item("total", Num("250")), Item("filename", Str("b.png"))>>)}

KeyTables == SeqsUpTo(KeyRecords, 2) \ {<<>>}

\* the last question starts with the text of a second CSV line
KeyQuestions ==
  {<<Chars("total?")>>,
   <<Chars("count?")>>,
   <<Chars("1"), Comma, Chars("100"), Comma, Chars("a.png"), NL, Chars("total?")>>}

Requests == [table : KeyTables, question : KeyQuestions]

RequestKey(req) == QueryKey(DataFrame(req.table), req.question)

InitKey ==
  /\ DiskInit /\ ConcInit /\ SeqIdle
  /\ \E a \in Requests :
       /\ reqA = a
       /\ reqB = a
       /\ keyA = RequestKey(a)
       /\ keyB = RequestKey(a)

\* a call semantic_query(df, question): the path it computes
AskA ==
  /\ \E a \in Requests :
       /\ reqA' = a
       /\ keyA' = RequestKey(a)
  /\ UNCHANGED <<reqB, keyB, cache, pdf, seqVars, concVars>>

\* another call, with its own table and question
AskB ==
  /\ \E b \in Requests :
       /\ reqB' = b
       /\ keyB' = RequestKey(b)
  /\ UNCHANGED <<reqA, keyA, cache, pdf, seqVars, concVars>>

NextKey == AskA \/ AskB

SpecKey == InitKey /\ [][NextKey]_vars

\* =============================================================== claims
CachedOps == {"extract", "query", "report"}

\* the namespace directory an operation works in
Dir(fs, op) ==
  IF op = "extract" THEN fs.documents
  ELSE IF op = "query" THEN fs.queries
  ELSE fs.reports

\* the file the batch loop is about to extract, and the one it just did
CurrentFile == files[idx]
Extracting == pc = "extract" /\ idx <= Len(files)

\* C1: once extract_document has succeeded for a file, every later call with
\* a file of the same bytes and name succeeds with a result equal to the
\* first one and makes no remote request, whatever ran in between.
C1_CacheIdempotence ==
  [][(Extracting /\ done[CurrentFile] /= NoDoc)
       => /\ ret'.outcome = "ok"
          /\ ret'.value = done[CurrentFile]
          /\ ret'.reply = NoReply]_vars

\* a repeated extraction served from the cache, after a query was cached too
C1_Witness ==
  /\ ret.op = "extract"
  /\ ret.hit
  /\ ret.outcome = "ok"
  /\ idx > 1
  /\ done[files[idx - 1]] = ret.value
  /\ GetItem(ret.value.items, "filename") = Str(files[idx - 1].name)
  /\ DOMAIN cache.queries /= {}

\* C2: every record extract_document returns carries the name of the file
\* passed to that call in its filename field.
C2_Provenance ==
  (ret.op = "extract" /\ ret.outcome = "ok")
    => GetItem(ret.value.items, "filename") = Str(files[idx - 1].name)

\* C3: when the remote call fails or the model's text is not valid JSON, the
\* operation ends with that error, the run is over, no entry exists for the
\* operation's key and the whole cache is as it was before.
BadReply(reply) == reply.status /= "200" \/ ~loads(reply.text).ok

C3_FailureLeavesCache ==
  [][(ret'.op \in CachedOps /\ ret'.reply /= NoReply /\ BadReply(ret'.reply))
       => /\ ret'.outcome = IF ret'.reply.status /= "200" THEN "HTTPError"
                            ELSE "JSONDecodeError"
          /\ pc' = "end"
          /\ records' = records
          /\ cache' = cache
          /\ ret'.key \notin DOMAIN Dir(cache', ret'.op)]_vars

\* a query failed on the remote side while documents were cached
C3_Witness ==
  /\ ret.op = "query"
  /\ ret.outcome = "HTTPError"
  /\ ~ret.hit
  /\ DOMAIN cache.documents /= {}
  /\ ret.key \notin DOMAIN cache.queries

\* C4: the files of a batch are extracted one at a time in upload order; when
\* the extraction of file i fails the run is over and nothing more is looked
\* up, requested or written in it, while the entries of files 1..i-1 are in
\* the cache with the records they returned, and an extraction that finds a
\* valid entry returns it.
C4_SequentialAbort ==
  [][/\ (attempted' /= attempted /\ attempted' /= <<>>)
          => /\ attempted' = Append(attempted, Len(attempted) + 1)
             /\ Len(attempted) = Len(records)
             /\ ret'.op = "extract"
             /\ ret'.key = DocPath(files[Len(attempted')])
     /\ (ret'.op = "extract" /\ ret'.outcome /= "ok")
          => /\ pc' = "end"
             /\ \A j \in 1..(Len(attempted') - 1) :
                  /\ DocPath(files[j]) \in DOMAIN cache'.documents
                  /\ loads(cache'.documents[DocPath(files[j])]).doc = records'[j]
     /\ pc = "end"
          => /\ attempted' = <<>>
             /\ calls' = calls
             /\ cache' = cache
     /\ (/\ Extracting
         /\ DocPath(CurrentFile) \in DOMAIN cache.documents
         /\ loads(cache.documents[DocPath(CurrentFile)]).ok)
          => /\ ret'.outcome = "ok"
             /\ ret'.value = loads(cache.documents[DocPath(CurrentFile)]).doc]_vars

\* the second file of a batch failed after the first was extracted, and the
\* rest of the batch was not attempted
C4_Witness ==
  /\ pc = "end"
  /\ ret.op = "extract"
  /\ ret.outcome /= "ok"
  /\ Len(files) > Len(attempted)
  /\ attempted = <<1, 2>>
  /\ Len(records) = 1

\* C5: two requests to semantic_query whose tables or questions differ hash
\* different strings, so they get different cache keys.
C5_KeyDiscrimination ==
  (reqA.table /= reqB.table \/ reqA.question /= reqB.question)
    => (keyA.sha256 /= keyB.sha256 /\ keyA /= keyB)

\* C6: no step deletes or changes a cache entry that exists.
C6_WriteOnce ==
  [][\A op \in CachedOps :
       \A k \in DOMAIN Dir(cache, op) :
         /\ k \in DOMAIN Dir(cache', op)
         /\ Dir(cache', op)[k] = Dir(cache, op)[k]]_vars

\* all three namespaces hold an entry and a later call has run on one of them
C6_Witness ==
  /\ DOMAIN cache.documents /= {}
  /\ DOMAIN cache.queries /= {}
  /\ DOMAIN cache.reports /= {}
  /\ ret.op \in CachedOps
  /\ ret.hit

\* C7: when two sessions both missed the same documents file and both have
\* written it, the file holds exactly the JSON text of the one that wrote
\* last.
C7_LastWriterWins ==
  (Len(writeLog) = 2 /\ CPath(writeLog[1]) = CPath(writeLog[2]))
    => cache.documents[CPath(writeLog[2])] = dumps(cdata[writeLog[2]])

\* C8: a call whose cache file holds invalid JSON fails with a parse error,
\* makes no remote request and leaves the cache, that file included, as it
\* was.
C8_CorruptNeverRepaired ==
  [][(/\ ret'.op \in CachedOps
      /\ ret'.key \in DOMAIN Dir(cache, ret'.op)
      /\ ~loads(Dir(cache, ret'.op)[ret'.key]).ok)
       => /\ ret'.outcome = "JSONDecodeError"
          /\ ret'.reply = NoReply
          /\ pc' = "end"
          /\ cache' = cache]_vars

\* a call has just failed on a truncated cache file
C8_Witness ==
  /\ ret.op \in CachedOps
  /\ ret.hit
  /\ ret.outcome = "JSONDecodeError"
  /\ ~loads(Dir(cache, ret.op)[ret.key]).ok

\* C9: when the model's answer lacks the key answer or rows, the error is
\* raised before an entry for the query is written to the queries cache.
C9_ShapeErrorBeforeWrite ==
  (ret.op = "query" /\ ret.outcome = "KeyError")
    => ret.key \notin DOMAIN cache.queries

\* C10: the bytes a session reads for its download button are the rendering
\* of the report generate_report returned to that session.
C10_OwnPdf ==
  \A p \in Sessions : cpc[p] = "done" => cdl[p] = PdfOf(crep[p])

====
